---- MODULE Spec2Model ----
(***************************************************************************)
(* Model of src/src/util.rs: the BufferedWriter (a handle, an unbounded    *)
(* mpsc channel and a worker thread owning the sink) and the fixed-arity   *)
(* splitter (splitn_exact / rsplitn_exact over array_init_from_iter_).     *)
(***************************************************************************)
EXTENDS Integers, Sequences, FiniteSets, TLC

\* ------------------------------------------------------------------ bounds
\* Number of write calls made on one handle.
MaxWrites == 3
\* Number of flush calls made on one handle.
MaxFlushCalls == 1
\* Length of a splitter input.
MaxLen == 5
\* Largest arity N of splitn_exact / rsplitn_exact.
MaxN == 3
\* Number of w.write calls of one handle's sink that return
\* Err(ErrorKind::Interrupted).
MaxInterrupts == 1

\* All sequences over S of length at most n.
SeqsUpTo(S, n) == UNION {[1..k -> S] : k \in 0..n}

\* The byte ranges a caller passes to write: the empty range, two distinct
\* one-byte ranges, and a range the sink can take in one piece or in two.
Bufs == {<<>>, <<0>>, <<1>>, <<0, 1>>}

\* Elements of the splitter inputs.
Chars == {"a", "b", "c", ","}

\* Elements used as the delimiter.
Delims == {",", "a"}

\* Length of a byte-sequence input split on a multi-byte delimiter.
MaxHay == 7

\* Bytes of those inputs.
ByteChars == {"a", "b", "c", ":"}

\* The multi-byte delimiters.
Needles == {<<":", ":">>, <<":", "a">>}

VARIABLES
    \* ---- BufferedWriter
    sender,     \* handle.sender is Some
    thread,     \* handle.thread is Some
    chan,       \* buffers in flight in the mpsc channel, oldest first
    receiver,   \* the receiver endpoint exists (owned by the worker closure)
    wpc,        \* worker position: "recv", "write_all", "flush", "done",
                \* or "hung" inside a sink call that never returns
    wbuf,       \* buffer the worker is passing to w.write_all
    woff,       \* bytes of wbuf the sink has taken so far
    wresult,    \* how the worker thread ended: "none" (running), "Ok" or
                \* "Err" (the closure's return value), "Panic" (it unwound)
    werr,       \* origin of the io::Error in the worker's Err: "none",
                \* "write" (returned by w.write), "zero" (WriteZero, made by
                \* write_all on Ok(0)), "flush" (returned by w.flush)
    sink,       \* bytes the sink has received, in order
    taken,      \* buffers the worker has passed to w.write_all, in order
    sinkFlushes,\* successful w.flush() calls
    sinkErrs,   \* sink operations (w.write, w.flush) that returned Err
    interrupts, \* w.write calls that returned Err(ErrorKind::Interrupted)
    flushCalls, \* w.flush() calls the worker has made
    hpc,        \* caller position: "live", "dropping" (sender released),
                \* "joining" (inside join), "returned", "panicked"
    calls,      \* buffers given to write, in call order
    rets,       \* value each write call returned
    sent,       \* number of write calls whose send succeeded
    hflushes,   \* flush calls made on the handle
    panics,     \* panics raised by drop
    \* ---- splitter
    spc,        \* "off", "loop", "done"
    sIn,        \* the input sequence
    sDelim,     \* the delimiter: an element, or a byte sequence
    sN,         \* the arity N
    sRev,       \* REVERSED
    sIter,      \* the splitting iterator
    sIdx,       \* indices the loop has still to visit
    sSlots,     \* the array under construction: slot -> [init, val]
    sWritten,   \* slot -> number of writes
    sNext,      \* calls of iter.next()
    sRead,      \* assume_init was called
    sResult     \* the returned Option

wvars == <<sender, thread, chan, receiver, wpc, wbuf, woff, wresult, sink,
           taken, sinkFlushes, sinkErrs, interrupts, werr, flushCalls, hpc,
           calls, rets, sent, hflushes, panics>>
svars == <<spc, sIn, sDelim, sN, sRev, sIter, sIdx, sSlots, sWritten, sNext,
           sRead, sResult>>
vars == <<wvars, svars>>

\* ------------------------------------------------------------ helpers
RECURSIVE Flatten(_)
\* Concatenation of a sequence of buffers.
Flatten(bs) == IF bs = <<>> THEN <<>> ELSE Head(bs) \o Flatten(Tail(bs))

\* io::Result<usize> values of write.
Ok(n) == <<"Ok", n>>

\* ----------------------------------------------------- BufferedWriter
\* The splitter is not running.
SplitOff ==
    /\ spc = "off" /\ sIn = <<>> /\ sDelim = "," /\ sN = 0 /\ sRev = FALSE
    /\ sIter = [v |-> <<>>, finished |-> FALSE, count |-> 0]
    /\ sIdx = <<>> /\ sSlots = <<>> /\ sWritten = <<>> /\ sNext = 0
    /\ sRead = FALSE /\ sResult = [some |-> FALSE, val |-> <<>>]

\* BufferedWriter::new: the channel is created empty, the worker is spawned
\* and sits in receiver.iter(), the handle holds the sender and join handle.
WriterNew ==
    /\ sender = TRUE /\ thread = TRUE
    /\ chan = <<>> /\ receiver = TRUE
    /\ wpc = "recv" /\ wbuf = <<>> /\ woff = 0 /\ wresult = "none"
    /\ sink = <<>> /\ taken = <<>> /\ sinkFlushes = 0 /\ sinkErrs = 0
    /\ flushCalls = 0 /\ interrupts = 0 /\ werr = "none"
    /\ hpc = "live" /\ calls = <<>> /\ rets = <<>> /\ sent = 0
    /\ hflushes = 0 /\ panics = 0

Init == WriterNew /\ SplitOff

\* Sender::send on the unbounded channel: succeeds iff the receiver exists.
SendOk == sender /\ receiver

\* Mutant of Write: a short count Ok(0) is returned when the send failed.
WriteShort(buf) ==
    /\ hpc = "live"
    /\ Len(calls) < MaxWrites
    /\ chan' = IF SendOk THEN Append(chan, buf) ELSE chan
    /\ sent' = IF SendOk THEN sent + 1 ELSE sent
    /\ calls' = Append(calls, buf)
    /\ rets' = Append(rets, IF SendOk THEN Ok(Len(buf)) ELSE Ok(0))
    /\ UNCHANGED <<sender, thread, receiver, wpc, wbuf, woff, wresult, sink,
                   taken, sinkFlushes, hpc, hflushes, panics>>
    /\ UNCHANGED <<sinkErrs, flushCalls, interrupts, werr, svars>>

\* Mutant of Write: the buffer is queued whether or not a receiver exists.
WriteQueuesAlways(buf) ==
    /\ hpc = "live"
    /\ Len(calls) < MaxWrites
    /\ chan' = Append(chan, buf)
    /\ sent' = IF SendOk THEN sent + 1 ELSE sent
    /\ calls' = Append(calls, buf)
    /\ rets' = Append(rets, Ok(Len(buf)))
    /\ UNCHANGED <<sender, thread, receiver, wpc, wbuf, woff, wresult, sink,
                   taken, sinkFlushes, hpc, hflushes, panics>>
    /\ UNCHANGED <<sinkErrs, flushCalls, interrupts, werr, svars>>

\* Mutant of Write: a rendezvous channel, send waits until the worker is
\* back in receiver.iter() with nothing queued.
WriteRendezvous(buf) ==
    /\ hpc = "live"
    /\ Len(calls) < MaxWrites
    /\ SendOk => (wpc = "recv" /\ chan = <<>>)
    /\ chan' = IF SendOk THEN Append(chan, buf) ELSE chan
    /\ sent' = IF SendOk THEN sent + 1 ELSE sent
    /\ calls' = Append(calls, buf)
    /\ rets' = Append(rets, Ok(Len(buf)))
    /\ UNCHANGED <<sender, thread, receiver, wpc, wbuf, woff, wresult, sink,
                   taken, sinkFlushes, hpc, hflushes, panics>>
    /\ UNCHANGED <<sinkErrs, flushCalls, interrupts, werr, svars>>

\* Write::write: self.sender.as_ref().map(|s| s.send(buf.to_owned()));
\* Ok(buf.len()).  The result of send is discarded.
Write(buf) ==
    /\ hpc = "live"
    /\ Len(calls) < MaxWrites
    /\ chan' = IF SendOk THEN Append(chan, buf) ELSE chan
    /\ sent' = IF SendOk THEN sent + 1 ELSE sent
    /\ calls' = Append(calls, buf)
    /\ rets' = Append(rets, Ok(Len(buf)))
    /\ UNCHANGED <<sender, thread, receiver, wpc, wbuf, woff, wresult, sink,
                   taken, sinkFlushes, hpc, hflushes, panics>>
    /\ UNCHANGED <<sinkErrs, flushCalls, interrupts, werr, svars>>

WriteAny == \E buf \in Bufs : Write(buf)

\* Mutant of Flush: a synchronous drain, the call waits until nothing is
\* queued and the worker is idle, and flushes the sink.
FlushDrains ==
    /\ hpc = "live"
    /\ hflushes < MaxFlushCalls
    /\ chan = <<>> /\ wpc = "recv"
    /\ hflushes' = hflushes + 1
    /\ sinkFlushes' = sinkFlushes + 1
    /\ flushCalls' = flushCalls + 1
    /\ UNCHANGED <<sender, thread, chan, receiver, wpc, wbuf, woff, wresult,
                   sink, taken, hpc, calls, rets, sent, panics>>
    /\ UNCHANGED <<sinkErrs, interrupts, werr, svars>>

\* Write::flush: Ok(()).
Flush ==
    /\ hpc = "live"
    /\ hflushes < MaxFlushCalls
    /\ hflushes' = hflushes + 1
    /\ UNCHANGED <<sender, thread, chan, receiver, wpc, wbuf, woff, wresult,
                   sink, taken, sinkFlushes, hpc, calls, rets, sent, panics>>
    /\ UNCHANGED <<sinkErrs, flushCalls, interrupts, werr, svars>>

\* Mutant of DropBegin: the worker is joined with the sender still held.
DropBeginKeepsSender ==
    /\ hpc = "live"
    /\ hpc' = "dropping"
    /\ UNCHANGED <<sender, thread, chan, receiver, wpc, wbuf, woff, wresult,
                   sink, taken, sinkFlushes, calls, rets, sent, hflushes,
                   panics>>
    /\ UNCHANGED <<sinkErrs, flushCalls, interrupts, werr, svars>>

\* Drop::drop, first statement: drop(self.sender.take()).
DropBegin ==
    /\ hpc = "live"
    /\ sender' = FALSE
    /\ hpc' = "dropping"
    /\ UNCHANGED <<thread, chan, receiver, wpc, wbuf, woff, wresult, sink,
                   taken, sinkFlushes, calls, rets, sent, hflushes, panics>>
    /\ UNCHANGED <<sinkErrs, flushCalls, interrupts, werr, svars>>

\* Drop::drop, second statement, self.thread.take().unwrap(): the join
\* handle leaves the struct before the wait begins.
DropTake ==
    /\ hpc = "dropping"
    /\ thread
    /\ thread' = FALSE
    /\ hpc' = "joining"
    /\ UNCHANGED <<sender, chan, receiver, wpc, wbuf, woff, wresult, sink,
                   taken, sinkFlushes, calls, rets, sent, hflushes, panics>>
    /\ UNCHANGED <<sinkErrs, flushCalls, interrupts, werr, svars>>

\* Mutant of DropJoin: the join handle is dropped without joining.
DropDetach ==
    /\ hpc = "joining"
    /\ IF wresult \in {"none", "Ok"}
         THEN hpc' = "returned" /\ panics' = panics
         ELSE hpc' = "panicked" /\ panics' = panics + 1
    /\ UNCHANGED <<sender, thread, chan, receiver, wpc, wbuf, woff, wresult,
                   sink, taken, sinkFlushes, calls, rets, sent, hflushes>>
    /\ UNCHANGED <<sinkErrs, flushCalls, interrupts, werr, svars>>

\* Drop::drop, second statement, .join().unwrap().unwrap(): join blocks
\* until the worker thread has ended; the first unwrap panics when the
\* worker panicked, the second when its closure returned Err.
DropJoin ==
    /\ hpc = "joining"
    /\ wpc = "done"
    /\ IF wresult = "Ok"
         THEN hpc' = "returned" /\ panics' = panics
         ELSE hpc' = "panicked" /\ panics' = panics + 1
    /\ UNCHANGED <<sender, thread, chan, receiver, wpc, wbuf, woff, wresult,
                   sink, taken, sinkFlushes, calls, rets, sent, hflushes>>
    /\ UNCHANGED <<sinkErrs, flushCalls, interrupts, werr, svars>>

\* Mutant of WorkerRecv: the newest queued buffer is taken first.
WorkerRecvNewest ==
    /\ wpc = "recv"
    /\ chan # <<>>
    /\ wbuf' = chan[Len(chan)]
    /\ chan' = SubSeq(chan, 1, Len(chan) - 1)
    /\ woff' = 0
    /\ taken' = Append(taken, chan[Len(chan)])
    /\ wpc' = "write_all"
    /\ UNCHANGED <<sender, thread, receiver, wresult, sink, sinkFlushes,
                   hpc, calls, rets, sent, hflushes, panics>>
    /\ UNCHANGED <<sinkErrs, flushCalls, interrupts, werr, svars>>

\* Worker: receiver.iter() yields the oldest queued buffer, which is handed
\* to w.write_all.
WorkerRecv ==
    /\ wpc = "recv"
    /\ chan # <<>>
    /\ wbuf' = Head(chan)
    /\ chan' = Tail(chan)
    /\ woff' = 0
    /\ taken' = Append(taken, Head(chan))
    /\ wpc' = "write_all"
    /\ UNCHANGED <<sender, thread, receiver, wresult, sink, sinkFlushes,
                   hpc, calls, rets, sent, hflushes, panics>>
    /\ UNCHANGED <<sinkErrs, flushCalls, interrupts, werr, svars>>

\* Mutant of WorkerRecvEnd: the loop ends as soon as nothing is queued
\* (receiver.try_iter()), with the sender still alive.
WorkerRecvEndEmpty ==
    /\ wpc = "recv"
    /\ chan = <<>>
    /\ wpc' = "flush"
    /\ UNCHANGED <<sender, thread, chan, receiver, wbuf, woff, wresult, sink,
                   taken, sinkFlushes, hpc, calls, rets, sent, hflushes,
                   panics>>
    /\ UNCHANGED <<sinkErrs, flushCalls, interrupts, werr, svars>>

\* Worker: receiver.iter() ends when the queue is empty and the sender is
\* gone.
WorkerRecvEnd ==
    /\ wpc = "recv"
    /\ chan = <<>>
    /\ ~sender
    /\ wpc' = "flush"
    /\ UNCHANGED <<sender, thread, chan, receiver, wbuf, woff, wresult, sink,
                   taken, sinkFlushes, hpc, calls, rets, sent, hflushes,
                   panics>>
    /\ UNCHANGED <<sinkErrs, flushCalls, interrupts, werr, svars>>

\* Worker, inside w.write_all(&buf): one successful w.write of n >= 1 bytes
\* (the sink may take fewer bytes than offered).
SinkWrite ==
    /\ wpc = "write_all"
    /\ woff < Len(wbuf)
    /\ \E n \in 1..(Len(wbuf) - woff) :
         /\ sink' = sink \o SubSeq(wbuf, woff + 1, woff + n)
         /\ woff' = woff + n
    /\ UNCHANGED <<sender, thread, chan, receiver, wpc, wbuf, wresult, taken,
                   sinkFlushes, hpc, calls, rets, sent, hflushes, panics>>
    /\ UNCHANGED <<sinkErrs, flushCalls, interrupts, werr, svars>>

\* Mutant of WriteAllDone: the sink is flushed after every buffer.
WriteAllDoneFlushes ==
    /\ wpc = "write_all"
    /\ woff = Len(wbuf)
    /\ wpc' = "recv"
    /\ sinkFlushes' = sinkFlushes + 1
    /\ flushCalls' = flushCalls + 1
    /\ UNCHANGED <<sender, thread, chan, receiver, wbuf, woff, wresult, sink,
                   taken, hpc, calls, rets, sent, hflushes, panics>>
    /\ UNCHANGED <<sinkErrs, interrupts, werr, svars>>

\* Worker: w.write_all returned Ok(()), the loop asks for the next buffer.
WriteAllDone ==
    /\ wpc = "write_all"
    /\ woff = Len(wbuf)
    /\ wpc' = "recv"
    /\ UNCHANGED <<sender, thread, chan, receiver, wbuf, woff, wresult, sink,
                   taken, sinkFlushes, hpc, calls, rets, sent, hflushes,
                   panics>>
    /\ UNCHANGED <<sinkErrs, flushCalls, interrupts, werr, svars>>

\* Mutant of SinkWriteFail: the error of w.write_all is discarded and the
\* loop goes on with the next buffer.
SinkWriteFailIgnored ==
    /\ wpc = "write_all"
    /\ woff < Len(wbuf)
    /\ sinkErrs' = sinkErrs + 1
    /\ wpc' = "recv"
    /\ UNCHANGED <<sender, thread, chan, receiver, wbuf, woff, wresult, sink,
                   taken, sinkFlushes, hpc, calls, rets, sent, hflushes,
                   panics>>
    /\ UNCHANGED <<flushCalls, interrupts, werr, svars>>

\* Worker: a w.write inside w.write_all returns an Err of a kind other than
\* Interrupted; write_all returns it, the closure returns Err, its receiver
\* is dropped and with it the buffers still queued.
SinkWriteFail ==
    /\ wpc = "write_all"
    /\ woff < Len(wbuf)
    /\ sinkErrs' = sinkErrs + 1
    /\ wresult' = "Err"
    /\ werr' = "write"
    /\ wpc' = "done"
    /\ receiver' = FALSE
    /\ chan' = <<>>
    /\ UNCHANGED <<sender, thread, wbuf, woff, sink, taken, sinkFlushes, hpc,
                   calls, rets, sent, hflushes, panics>>
    /\ UNCHANGED <<flushCalls, interrupts, svars>>

\* Worker: a w.write inside w.write_all returns Err(ErrorKind::Interrupted);
\* write_all drops the error and calls w.write again with the same bytes.
SinkWriteInterrupted ==
    /\ wpc = "write_all"
    /\ woff < Len(wbuf)
    /\ interrupts < MaxInterrupts
    /\ sinkErrs' = sinkErrs + 1
    /\ interrupts' = interrupts + 1
    /\ UNCHANGED <<sender, thread, chan, receiver, wpc, wbuf, woff, wresult,
                   sink, taken, sinkFlushes, hpc, calls, rets, sent, hflushes,
                   panics>>
    /\ UNCHANGED <<flushCalls, werr, svars>>

\* Worker: a w.write inside w.write_all returns Ok(0) with bytes left to
\* write; write_all returns Err(ErrorKind::WriteZero) and the closure
\* returns it.
SinkWriteZero ==
    /\ wpc = "write_all"
    /\ woff < Len(wbuf)
    /\ wresult' = "Err"
    /\ werr' = "zero"
    /\ wpc' = "done"
    /\ receiver' = FALSE
    /\ chan' = <<>>
    /\ UNCHANGED <<sender, thread, wbuf, woff, sink, taken, sinkFlushes, hpc,
                   calls, rets, sent, hflushes, panics>>
    /\ UNCHANGED <<sinkErrs, flushCalls, interrupts, svars>>

\* Worker: the sink panics inside a w.write or the w.flush; the thread
\* unwinds, dropping the receiver and the buffers still queued, and join()
\* will return Err.
SinkPanic ==
    /\ \/ wpc = "write_all" /\ woff < Len(wbuf)
       \/ wpc = "flush"
    /\ flushCalls' = IF wpc = "flush" THEN flushCalls + 1 ELSE flushCalls
    /\ wresult' = "Panic"
    /\ wpc' = "done"
    /\ receiver' = FALSE
    /\ chan' = <<>>
    /\ UNCHANGED <<sender, thread, wbuf, woff, sink, taken, sinkFlushes, hpc,
                   calls, rets, sent, hflushes, panics>>
    /\ UNCHANGED <<sinkErrs, interrupts, werr, svars>>

\* Worker: w.flush() succeeds and the closure returns Ok(()).
SinkFlush ==
    /\ wpc = "flush"
    /\ sinkFlushes' = sinkFlushes + 1
    /\ wresult' = "Ok"
    /\ flushCalls' = flushCalls + 1
    /\ wpc' = "done"
    /\ receiver' = FALSE
    /\ UNCHANGED <<sender, thread, chan, wbuf, woff, sink, taken, hpc, calls,
                   rets, sent, hflushes, panics>>
    /\ UNCHANGED <<sinkErrs, interrupts, werr, svars>>

\* Worker: w.flush() returns Err (of any kind: it is not called again) and
\* the closure returns it.
SinkFlushFail ==
    /\ wpc = "flush"
    /\ sinkErrs' = sinkErrs + 1
    /\ wresult' = "Err"
    /\ werr' = "flush"
    /\ flushCalls' = flushCalls + 1
    /\ wpc' = "done"
    /\ receiver' = FALSE
    /\ UNCHANGED <<sender, thread, chan, wbuf, woff, sink, taken, sinkFlushes,
                   hpc, calls, rets, sent, hflushes, panics>>
    /\ UNCHANGED <<interrupts, svars>>

Next ==
    \/ WriteAny
    \/ Flush
    \/ DropBegin
    \/ DropTake
    \/ DropJoin
    \/ WorkerRecv
    \/ WorkerRecvEnd
    \/ SinkWrite
    \/ WriteAllDone
    \/ SinkWriteFail
    \/ SinkWriteInterrupted
    \/ SinkWriteZero
    \/ SinkPanic
    \/ SinkFlush
    \/ SinkFlushFail

Spec == Init /\ [][Next]_vars

\* Worker: the sink blocks for ever inside a w.write or the w.flush.
SinkHang ==
    /\ \/ wpc = "write_all" /\ woff < Len(wbuf)
       \/ wpc = "flush"
    /\ flushCalls' = IF wpc = "flush" THEN flushCalls + 1 ELSE flushCalls
    /\ wpc' = "hung"
    /\ UNCHANGED <<sender, thread, chan, receiver, wbuf, woff, wresult, sink,
                   taken, sinkFlushes, hpc, calls, rets, sent, hflushes,
                   panics>>
    /\ UNCHANGED <<sinkErrs, interrupts, werr, svars>>

\* The steps of the worker thread, sink calls included.
WorkerStep ==
    \/ WorkerRecv
    \/ WorkerRecvEnd
    \/ SinkWrite
    \/ WriteAllDone
    \/ SinkWriteFail
    \/ SinkWriteInterrupted
    \/ SinkWriteZero
    \/ SinkPanic
    \/ SinkFlush
    \/ SinkFlushFail
    \/ SinkHang

FairNext ==
    \/ WriteAny
    \/ Flush
    \/ DropBegin
    \/ DropTake
    \/ DropJoin
    \/ WorkerRecv
    \/ WorkerRecvEnd
    \/ SinkWrite
    \/ WriteAllDone
    \/ SinkWriteFail
    \/ SinkWriteInterrupted
    \/ SinkWriteZero
    \/ SinkPanic
    \/ SinkFlush
    \/ SinkFlushFail
    \/ SinkHang

\* The worker thread is scheduled and every sink call ends in some way
\* (returns, fails, panics, or is known to block for ever); drop goes on
\* to its join, which returns once the worker has ended.  The caller is under no obligation to call anything.
FairSpec ==
    /\ Init
    /\ [][FairNext]_vars
    /\ WF_vars(WorkerStep)
    /\ WF_vars(DropTake)
    /\ WF_vars(DropJoin)

\* ------------------------------------------------------------ splitter
\* Option values.
None == [some |-> FALSE, val |-> <<>>]
Some(x) == [some |-> TRUE, val |-> x]

\* v.iter().position(|i| *i == d): index of the first element equal to d,
\* 0 when there is none.
Position(v, d) ==
    IF \E i \in 1..Len(v) : v[i] = d
      THEN CHOOSE i \in 1..Len(v) : v[i] = d /\ \A j \in 1..(i - 1) : v[j] # d
      ELSE 0

\* v.iter().rposition(|i| *i == d): index of the last element equal to d,
\* 0 when there is none.
RPosition(v, d) ==
    IF \E i \in 1..Len(v) : v[i] = d
      THEN CHOOSE i \in 1..Len(v) :
             v[i] = d /\ \A j \in (i + 1)..Len(v) : v[j] # d
      ELSE 0

\* self.splitn(N, ..) / self.rsplitn(N, ..): the iterator as constructed.
SplitIter(v, n) == [v |-> v, finished |-> FALSE, count |-> n]

\* Mutant of Finish: an empty remainder is not yielded.
FinishNoEmpty(it) ==
    IF it.finished \/ it.v = <<>>
      THEN [item |-> None, it |-> [it EXCEPT !.finished = TRUE]]
      ELSE [item |-> Some(it.v), it |-> [it EXCEPT !.finished = TRUE]]

\* The splitting iterator's last item: what is left of the input, once.
Finish(it) ==
    IF it.finished
      THEN [item |-> None, it |-> it]
      ELSE [item |-> Some(it.v), it |-> [it EXCEPT !.finished = TRUE]]

\* Mutant of SplitFwd: the rest of the input starts at the delimiter, not
\* after it.
SplitFwdKeepsDelim(it, d) ==
    IF it.finished THEN [item |-> None, it |-> it]
    ELSE LET idx == Position(it.v, d) IN
         IF idx = 0 \/ idx = 1 THEN Finish(it)
         ELSE [item |-> Some(SubSeq(it.v, 1, idx - 1)),
               it |-> [it EXCEPT !.v = SubSeq(it.v, idx, Len(it.v))]]

\* One item of the unlimited forward split: the segment before the first
\* delimiter, or the remainder when there is none.
SplitFwd(it, d) ==
    IF it.finished THEN [item |-> None, it |-> it]
    ELSE LET idx == Position(it.v, d) IN
         IF idx = 0 THEN Finish(it)
         ELSE [item |-> Some(SubSeq(it.v, 1, idx - 1)),
               it |-> [it EXCEPT !.v = SubSeq(it.v, idx + 1, Len(it.v))]]

\* One item of the unlimited reverse split: the segment after the last
\* delimiter, or the remainder when there is none.
SplitBack(it, d) ==
    IF it.finished THEN [item |-> None, it |-> it]
    ELSE LET idx == RPosition(it.v, d) IN
         IF idx = 0 THEN Finish(it)
         ELSE [item |-> Some(SubSeq(it.v, idx + 1, Len(it.v))),
               it |-> [it EXCEPT !.v = SubSeq(it.v, 1, idx - 1)]]

\* Mutant of SplitNNext: the N-th item is one more segment, not the
\* remainder.
SplitNNextNoRemainder(it, d, rev) ==
    IF it.count = 0 THEN [item |-> None, it |-> it]
    ELSE LET c == [it EXCEPT !.count = it.count - 1] IN
         IF rev THEN SplitBack(c, d) ELSE SplitFwd(c, d)

\* next() of splitn(N, ..) (rev = FALSE) and rsplitn(N, ..) (rev = TRUE): at
\* most N items, the N-th being the remainder.
SplitNNext(it, d, rev) ==
    IF it.count = 0 THEN [item |-> None, it |-> it]
    ELSE LET c == [it EXCEPT !.count = it.count - 1] IN
         IF it.count = 1 THEN Finish(c)
         ELSE IF rev THEN SplitBack(c, d) ELSE SplitFwd(c, d)

\* self.splitn_str(N, b): the bstr iterator as constructed.  Offsets are
\* 0-based: pos is where the finder searches from, last is the end of the
\* previous match.
BstrIter(h, b, n) ==
    [haystack |-> h, needle |-> b, pos |-> 0, last |-> 0, done |-> FALSE,
     count |-> 0, limit |-> n]

\* h[from..to), 0-based.
Slice(h, from, to) == SubSeq(h, from + 1, to)

\* The finder's search: offset of the first occurrence of the needle b in
\* h at or after offset from, -1 when there is none.
FindFrom(h, b, from) ==
    LET hits == {i \in from..(Len(h) - Len(b)) : Slice(h, i, i + Len(b)) = b}
    IN  IF hits = {} THEN -1
        ELSE CHOOSE i \in hits : \A j \in hits : i <= j

\* next() of the finder: the next occurrence, the search resuming after it.
BstrFindNext(it) ==
    IF it.pos > Len(it.haystack) THEN [start |-> -1, it |-> it]
    ELSE LET i == FindFrom(it.haystack, it.needle, it.pos) IN
         IF i = -1 THEN [start |-> -1, it |-> it]
         ELSE [start |-> i,
               it |-> [it EXCEPT !.pos = i + IF Len(it.needle) > 1
                                              THEN Len(it.needle) ELSE 1]]

\* Mutant of BstrSplitNext: the next piece starts one byte after the start
\* of the match, not after the whole delimiter.
BstrSplitNextSkipsOne(it) ==
    LET f == BstrFindNext(it) IN
    IF f.start # -1
      THEN [item |-> Some(Slice(it.haystack, it.last, f.start)),
            it |-> [f.it EXCEPT !.last = f.start + 1]]
    ELSE IF it.last >= Len(it.haystack)
      THEN IF ~it.done
             THEN [item |-> Some(<<>>), it |-> [f.it EXCEPT !.done = TRUE]]
             ELSE [item |-> None, it |-> f.it]
    ELSE [item |-> Some(Slice(it.haystack, it.last, Len(it.haystack))),
          it |-> [f.it EXCEPT !.last = Len(it.haystack), !.done = TRUE]]

\* next() of the unlimited split_str: the bytes between the previous match
\* and the next one, or what is left of the input, once.
BstrSplitNext(it) ==
    LET f == BstrFindNext(it) IN
    IF f.start # -1
      THEN [item |-> Some(Slice(it.haystack, it.last, f.start)),
            it |-> [f.it EXCEPT !.last = f.start + Len(it.needle)]]
    ELSE IF it.last >= Len(it.haystack)
      THEN IF ~it.done
             THEN [item |-> Some(<<>>), it |-> [f.it EXCEPT !.done = TRUE]]
             ELSE [item |-> None, it |-> f.it]
    ELSE [item |-> Some(Slice(it.haystack, it.last, Len(it.haystack))),
          it |-> [f.it EXCEPT !.last = Len(it.haystack), !.done = TRUE]]

\* next() of splitn_str(N, b): at most N items, the N-th being everything
\* after the previous match.
BstrSplitNNext(it) ==
    LET c == [it EXCEPT !.count = it.count + 1] IN
    IF c.count > c.limit \/ c.done THEN [item |-> None, it |-> c]
    ELSE IF c.count = c.limit
      THEN [item |-> Some(Slice(c.haystack, c.last, Len(c.haystack))),
            it |-> c]
    ELSE BstrSplitNext(c)

\* iter.next() for the iterator the front-end passed in.
IterNext(it, d, rev) ==
    IF "needle" \in DOMAIN it THEN BstrSplitNNext(it)
    ELSE SplitNNext(it, d, rev)

\* Mutant of Indices: the slots are visited in ascending order whatever the
\* direction.
IndicesAscending(n, rev) == [k \in 1..n |-> k - 1]

\* The order in which the loop visits the slots: 0..N, or (0..N).rev() when
\* REVERSED.
Indices(n, rev) == [k \in 1..n |-> IF rev THEN n - k ELSE k - 1]

\* MaybeUninit::uninit(): no slot holds a value.
Uninit(n) == [i \in 0..(n - 1) |-> [init |-> FALSE, val |-> <<>>]]

\* The state array_init_from_iter_ starts its loop in.
ArrayStart(iter, n, rev) ==
    [pc |-> "loop", iter |-> iter, idx |-> Indices(n, rev),
     slots |-> Uninit(n), written |-> [i \in 0..(n - 1) |-> 0],
     next |-> 0, read |-> FALSE, result |-> None]

\* result.assume_init(): the array read as a whole.
AssumeInit(slots) ==
    [k \in 1..Cardinality(DOMAIN slots) |-> slots[k - 1].val]

\* Mutant of LoopBody: an exhausted iterator ends the loop (break) and the
\* function goes on to assume_init.
LoopBodyBreaks(st, d, rev) ==
    LET i == Head(st.idx)
        r == IterNext(st.iter, d, rev)
    IN  IF r.item.some
          THEN [st EXCEPT !.iter = r.it,
                          !.next = st.next + 1,
                          !.idx = Tail(st.idx),
                          !.slots[i] = [init |-> TRUE, val |-> r.item.val],
                          !.written[i] = st.written[i] + 1]
          ELSE [st EXCEPT !.iter = r.it,
                          !.next = st.next + 1,
                          !.idx = <<>>]

\* One iteration of `for i in indices`: ptr.offset(i).write(iter.next()?).
LoopBody(st, d, rev) ==
    LET i == Head(st.idx)
        r == IterNext(st.iter, d, rev)
    IN  IF r.item.some
          THEN [st EXCEPT !.iter = r.it,
                          !.next = st.next + 1,
                          !.idx = Tail(st.idx),
                          !.slots[i] = [init |-> TRUE, val |-> r.item.val],
                          !.written[i] = st.written[i] + 1]
          ELSE [st EXCEPT !.iter = r.it,
                          !.next = st.next + 1,
                          !.pc = "done",
                          !.result = None]

\* Mutant of LoopExit: an item is pulled from the iterator before the
\* indices are found exhausted.
LoopExitPullsFirst(st, d, rev) ==
    LET r == IterNext(st.iter, d, rev)
    IN  IF r.item.some
          THEN [st EXCEPT !.iter = r.it, !.next = st.next + 1,
                          !.pc = "done", !.read = TRUE,
                          !.result = Some(AssumeInit(st.slots))]
          ELSE [st EXCEPT !.iter = r.it, !.next = st.next + 1,
                          !.pc = "done", !.result = None]

\* The indices are exhausted: Some(result.assume_init()).
LoopExit(st, d, rev) ==
    [st EXCEPT !.pc = "done", !.read = TRUE,
               !.result = Some(AssumeInit(st.slots))]

\* One step of array_init_from_iter_.
ArrayStep(st, d, rev) ==
    IF st.idx # <<>> THEN LoopBody(st, d, rev) ELSE LoopExit(st, d, rev)

RECURSIVE ArrayRun(_, _, _)
\* array_init_from_iter_ run to its return.
ArrayRun(st, d, rev) ==
    IF st.pc = "done" THEN st ELSE ArrayRun(ArrayStep(st, d, rev), d, rev)

\* array_init_from_iter(iter): REVERSED = false.
array_init_from_iter(iter, d, n) ==
    ArrayRun(ArrayStart(iter, n, FALSE), d, FALSE).result

\* array_init_from_rev_iter(iter): REVERSED = true.
array_init_from_rev_iter(iter, d, n) ==
    ArrayRun(ArrayStart(iter, n, TRUE), d, TRUE).result

\* s.splitn_exact::<N>(d)
splitn_exact(s, d, n) == array_init_from_iter(SplitIter(s, n), d, n)

\* s.rsplitn_exact::<N>(d)
rsplitn_exact(s, d, n) == array_init_from_rev_iter(SplitIter(s, n), d, n)

\* s.splitn_exact::<N>(b) for a byte sequence s and a delimiter b: &[u8].
splitn_exact_bytes(s, b, n) == array_init_from_iter(BstrIter(s, b, n), b, n)

\* The splitter's variables as one record, and back.
SplitState ==
    [pc |-> spc, iter |-> sIter, idx |-> sIdx, slots |-> sSlots,
     written |-> sWritten, next |-> sNext, read |-> sRead,
     result |-> sResult]

SplitIs(st) ==
    /\ spc = st.pc /\ sIter = st.iter /\ sIdx = st.idx
    /\ sSlots = st.slots /\ sWritten = st.written /\ sNext = st.next
    /\ sRead = st.read /\ sResult = st.result

SplitBecomes(st) ==
    /\ spc' = st.pc /\ sIter' = st.iter /\ sIdx' = st.idx
    /\ sSlots' = st.slots /\ sWritten' = st.written /\ sNext' = st.next
    /\ sRead' = st.read /\ sResult' = st.result
    /\ UNCHANGED <<sIn, sDelim, sN, sRev>>

\* A call of splitn_exact::<N> or rsplitn_exact::<N> about to enter the loop
\* of array_init_from_iter_.
SplitInit ==
    /\ WriterNew
    /\ sIn \in SeqsUpTo(Chars, MaxLen)
    /\ sDelim \in Delims
    /\ sN \in 0..MaxN
    /\ sRev \in BOOLEAN
    /\ SplitIs(ArrayStart(SplitIter(sIn, sN), sN, sRev))

\* A call of splitn_exact::<N> on a byte sequence with a multi-byte
\* delimiter about to enter the loop of array_init_from_iter_.
BstrInit ==
    /\ WriterNew
    /\ sIn \in SeqsUpTo(ByteChars, MaxHay)
    /\ sDelim \in Needles
    /\ sN \in 0..MaxN
    /\ sRev = FALSE
    /\ SplitIs(ArrayStart(BstrIter(sIn, sDelim, sN), sN, sRev))

\* The loop visits the next slot.
ArrayLoop ==
    /\ spc = "loop"
    /\ sIdx # <<>>
    /\ SplitBecomes(LoopBody(SplitState, sDelim, sRev))
    /\ UNCHANGED wvars

\* The loop is over and the array is returned.
ArrayFinish ==
    /\ spc = "loop"
    /\ sIdx = <<>>
    /\ SplitBecomes(LoopExit(SplitState, sDelim, sRev))
    /\ UNCHANGED wvars

SplitNext ==
    \/ ArrayLoop
    \/ ArrayFinish

SplitSpec == SplitInit /\ [][SplitNext]_vars

BstrSpec == BstrInit /\ [][SplitNext]_vars

\* ------------------------------------------------ BufferedWriter claims
\* The last element of a non-empty sequence.
Last(s) == s[Len(s)]

\* C1: once drop has returned, the sink holds exactly the concatenation of
\* the buffers given to write, in call order.
C1_Ordering == hpc = "returned" => sink = Flatten(calls)

\* Drop has returned after three write calls with distinct non-empty
\* buffers, the first written to the sink in two pieces.
C1_Witness ==
    /\ hpc = "returned"
    /\ Len(calls) = 3
    /\ calls[1] = <<0, 1>> /\ calls[2] = <<1>> /\ calls[3] = <<0>>
    /\ sink = <<0, 1, 1, 0>>

\* C2: drop is over only once the worker has terminated; when it has
\* returned, nothing is queued, every buffer given to write was passed to
\* the sink and written in full, and the sink was flushed.
C2_Completion ==
    /\ hpc \in {"returned", "panicked"} => wpc = "done"
    /\ hpc = "returned" =>
          /\ chan = <<>>
          /\ taken = calls
          /\ woff = Len(wbuf)
          /\ Len(sink) = Len(Flatten(taken))
          /\ sinkFlushes = 1
          /\ wresult = "Ok"

\* Drop has returned after at least two non-empty buffers were accepted.
C2_Witness ==
    /\ hpc = "returned" /\ ~thread
    /\ Len(calls) >= 2
    /\ \A i \in 1..Len(calls) : calls[i] # <<>>
    /\ sinkFlushes = 1

\* w.flush() calls that returned Err, and w.write calls that returned an Err
\* other than Interrupted: the errors w.write_all returns to the worker.
FlushErrs == IF werr = "flush" THEN 1 ELSE 0
WriteErrs == sinkErrs - interrupts - FlushErrs

\* What holds in every state once write_all has failed: on a w.write that
\* returned an Err other than Interrupted, or on one that returned Ok(0).
C3_Held ==
    /\ (WriteErrs > 0 \/ werr = "zero") =>
          (wresult = "Err" /\ wpc = "done" /\ hpc # "returned")
    /\ WriteErrs \in {0, 1}
    /\ WriteErrs = 1 <=> werr = "write"
    /\ hpc = "panicked" <=> panics = 1
    /\ panics <= 1
    /\ panics = 1 => wresult \in {"Err", "Panic"}

\* What no step does once write_all has failed, and what a w.write that
\* returns Err(Interrupted) leaves as it was: the worker is still inside
\* write_all with the same bytes to offer.
C3_NoMoreWrites ==
    /\ (WriteErrs > 0 \/ werr = "zero") =>
          /\ taken' = taken
          /\ sink' = sink
          /\ sinkFlushes' = sinkFlushes
          /\ sinkErrs' = sinkErrs
          /\ wresult' = wresult
          /\ werr' = werr
    /\ interrupts' # interrupts =>
          /\ wpc = "write_all" /\ woff < Len(wbuf)
          /\ UNCHANGED <<wpc, wbuf, woff, taken, sink, wresult, werr, chan,
                         receiver>>

\* C3: once the write of a buffer has failed (w.write_all returned Err: a
\* w.write returned an error other than Interrupted, or Ok(0)) the worker
\* passes no further buffer to the sink, the Err stays the worker's result,
\* and drop panics with it exactly once instead of returning; a w.write
\* retried inside write_all after Err(Interrupted) is no failed buffer write.
C3_FailureStops == []C3_Held /\ [][C3_NoMoreWrites]_vars

\* The sink failed on the second buffer after an Interrupted write of the
\* first, a third buffer was given to write and never passed to the sink,
\* and drop has panicked.
C3_Witness ==
    /\ hpc = "panicked" /\ panics = 1
    /\ werr = "write" /\ WriteErrs = 1
    /\ interrupts = 1 /\ sinkErrs = 2
    /\ Len(taken) = 2
    /\ Len(calls) = 3
    /\ sink = taken[1] /\ taken[1] # <<>>

\* A buffer was given to write after the worker had failed on the first
\* buffer with a second one still queued.
C8_Witness ==
    /\ wresult = "Err"
    /\ Len(calls) = 3
    /\ sent = 2
    /\ Len(taken) = 1
    /\ Len(calls[3]) = 2
    /\ rets[3] = Ok(2)

\* C8: every write call returned Ok with the full length of its buffer.
C8_FullLength ==
    /\ Len(rets) = Len(calls)
    /\ \A i \in 1..Len(calls) : rets[i] = Ok(Len(calls[i]))

\* A step that is a call of write made while the channel is closed.
WriteOnClosed == Len(calls') = Len(calls) + 1 /\ ~SendOk

\* C9 as stated: a write on a closed channel queues nothing and returns a
\* count of 0.
C9_ZeroBytes ==
    [][WriteOnClosed => (chan' = chan /\ Last(rets') = Ok(0))]_vars

\* C9 amended: a write on a closed channel queues nothing, and still
\* returns Ok with the full length of the buffer.
C9_NothingQueued ==
    [][WriteOnClosed =>
          /\ chan' = chan
          /\ sent' = sent
          /\ Last(rets') = Ok(Len(Last(calls')))]_vars

\* The worker has terminated with Err, and a later write of a one-byte
\* buffer queued nothing and returned Ok(1).
C9_Witness ==
    /\ ~receiver /\ sender
    /\ sent < Len(calls)
    /\ chan = <<>>
    /\ Len(Last(calls)) = 1
    /\ Last(rets) = Ok(1)

\* C10: while the handle is live a call of write can always complete,
\* wherever the worker is and however much is queued; drop's join is what
\* waits for the worker.
C10_NonBlocking ==
    /\ (hpc = "live" /\ Len(calls) < MaxWrites) => ENABLED WriteAny
    /\ (hpc = "joining" /\ wpc # "done") => ~ENABLED DropJoin

\* Two more buffers were queued by write while the worker was in the middle
\* of a sink write.
C10_Witness ==
    /\ hpc = "live"
    /\ wpc = "write_all" /\ woff < Len(wbuf)
    /\ Len(chan) >= 2
    /\ sent = Len(calls)

\* What a step that is a call of flush on the handle leaves as it was:
\* everything but the count of flush calls.
FlushFrame ==
    hflushes' # hflushes =>
        UNCHANGED <<sender, thread, chan, receiver, wpc, wbuf, woff, wresult,
                    sink, taken, sinkFlushes, sinkErrs, interrupts, werr,
                    flushCalls, hpc, calls, rets, sent, panics>>

\* A call of flush can complete in every state of a live handle.
FlushReady == (hpc = "live" /\ hflushes < MaxFlushCalls) => ENABLED Flush

\* C11: flush on the handle completes at once in every live state and
\* changes nothing: no buffer is queued, the sink is neither written nor
\* flushed, the channel, the queue and the worker stay as they were.
C11_FlushNoOp == []FlushReady /\ [][FlushFrame]_vars

\* flush has returned while a buffer is queued behind the one the worker is
\* writing, and the sink was never flushed.
C11_Witness ==
    /\ hflushes = 1
    /\ hpc = "live"
    /\ wpc = "write_all" /\ woff < Len(wbuf)
    /\ chan # <<>>
    /\ flushCalls = 0 /\ sinkFlushes = 0

\* The worker ended inside w.write_all: it returned Err, or the sink
\* panicked in a w.write.
WriteFailed ==
    \/ WriteErrs > 0
    \/ werr = "zero"
    \/ wresult = "Panic" /\ flushCalls = 0

\* C14 as stated: the worker has terminated only with the sender released,
\* and then every buffer queued was taken from the channel and written.
C14_OnlyByDisposal ==
    wpc = "done" =>
        /\ ~sender
        /\ chan = <<>>
        /\ Len(taken) = sent
        /\ sink = Flatten(taken)

\* C14 amended: the worker terminates with the sender still held, or with
\* queued buffers unwritten, only when w.write_all has failed or the sink
\* has panicked in a write; otherwise it has terminated only after drop
\* released the sender, with every queued buffer taken from the channel
\* and written in full.
C14_DisposalOrFailure ==
    /\ (wpc = "done" /\ ~WriteFailed) =>
          /\ ~sender /\ hpc # "live"
          /\ chan = <<>>
          /\ Len(taken) = sent
          /\ taken = calls
          /\ sink = Flatten(taken)
    /\ (wpc = "done" /\ sender) => (WriteFailed /\ wresult \in {"Err", "Panic"})
    /\ wpc = "done" => (chan = <<>> /\ ~receiver)

\* The worker has terminated on a failed write of the first buffer, after
\* an Interrupted write that it retried, while the handle is live; a
\* second buffer was queued and never written.
C14_Witness ==
    /\ wpc = "done" /\ sender /\ hpc = "live"
    /\ WriteErrs = 1 /\ interrupts = 1
    /\ sent = 2 /\ Len(taken) = 1
    /\ chan = <<>>

\* What holds of the worker's flush in every state.
C15_FlushLast ==
    /\ flushCalls <= 1
    /\ flushCalls = 1 =>
          /\ ~sender
          /\ chan = <<>>
          /\ ~WriteFailed
          /\ Len(taken) = sent
          /\ sink = Flatten(taken)
          /\ wpc = "done"
    /\ (wpc = "done" /\ ~WriteFailed) => flushCalls = 1
    /\ sinkFlushes <= flushCalls

\* What no step does once the worker has flushed.
C15_NoWriteAfterFlush ==
    flushCalls >= 1 =>
        /\ sink' = sink
        /\ taken' = taken
        /\ flushCalls' = flushCalls

\* C15: the worker flushes the sink at most once, only with the channel
\* closed and every queued buffer written; nothing is written after the
\* flush; without a write failure the worker has flushed exactly once when
\* it terminates.
C15_FlushOnce == []C15_FlushLast /\ [][C15_NoWriteAfterFlush]_vars

\* The worker has flushed once and terminated after writing three buffers,
\* one of them at the second attempt.
C15_Witness ==
    /\ wpc = "done" /\ wresult = "Ok"
    /\ flushCalls = 1 /\ sinkFlushes = 1
    /\ interrupts = 1
    /\ Len(taken) = 3
    /\ hpc = "joining"

\* drop is over: it has returned or panicked.
DropOver == hpc \in {"returned", "panicked"}

\* drop has begun and is not over.
DropBegun == hpc \in {"dropping", "joining"}

\* If no sink call blocks for ever, a drop that has begun is followed by the
\* worker's termination with nothing queued and by the end of drop.
C16_Terminates ==
    ([](wpc # "hung")) =>
        (DropBegun ~> (wpc = "done" /\ chan = <<>> /\ DropOver))

\* Whatever the sink does, a drop that has begun is followed by the
\* worker's termination or by a sink call that blocks for ever.
C16_WorkerSettles == DropBegun ~> (wpc \in {"done", "hung"})

\* A sink call that blocks for ever stays blocked, and drop is never over.
C16_Stalls ==
    /\ [](wpc = "hung" => ~DropOver)
    /\ [][wpc = "hung" => wpc' = "hung"]_vars
    /\ [][DropOver' => wpc = "done"]_vars

\* C16: with the worker scheduled and every sink call completing, a drop
\* that has begun leads to the worker draining the queue and terminating
\* and to drop returning or panicking; if a sink call blocks for ever, drop
\* never ends.
C16_DropLiveness == C16_Terminates /\ C16_WorkerSettles /\ C16_Stalls

\* drop waits in join, the handle's thread field already empty, with a
\* buffer still queued while the sink blocks for ever in a write.
C16_Witness ==
    /\ hpc = "joining" /\ ~thread
    /\ wpc = "hung" /\ woff < Len(wbuf)
    /\ chan # <<>>

\* ------------------------------------------------------ splitter claims
\* The input "a,b,c".
InABC == <<"a", ",", "b", ",", "c">>

\* Positions of the delimiter in s.
DelimAt(s, d) == {i \in 1..Len(s) : s[i] = d}

\* Position of the k-th delimiter of s counted from the left (0 for k = 0).
CutL(s, d, k) ==
    IF k = 0 THEN 0
    ELSE CHOOSE i \in DelimAt(s, d) :
           Cardinality({j \in DelimAt(s, d) : j < i}) = k - 1

\* Position of the k-th delimiter of s counted from the right.
CutR(s, d, k) ==
    CHOOSE i \in DelimAt(s, d) :
      Cardinality({j \in DelimAt(s, d) : j > i}) = k - 1

\* The n pieces cut at the first n - 1 delimiters.
PiecesFirst(s, d, n) ==
    [k \in 1..n |->
       SubSeq(s, CutL(s, d, k - 1) + 1,
              IF k = n THEN Len(s) ELSE CutL(s, d, k) - 1)]

\* The n pieces cut at the last n - 1 delimiters.
PiecesLast(s, d, n) ==
    [k \in 1..n |->
       SubSeq(s, IF k = 1 THEN 1 ELSE CutR(s, d, n - k + 1) + 1,
              IF k = n THEN Len(s) ELSE CutR(s, d, n - k) - 1)]

\* The call has returned, and it was made with N >= 1 on an input holding
\* at least N - 1 delimiters.
ReturnedEnough(rev) ==
    /\ spc = "done" /\ sRev = rev
    /\ sN >= 1
    /\ Cardinality(DelimAt(sIn, sDelim)) >= sN - 1

\* C4: splitn_exact::<N>, N >= 1, on an input with at least N - 1
\* delimiters returns the N pieces cut at the first N - 1 delimiters, left
\* to right, the last one being the whole remainder.
C4_Forward ==
    /\ ReturnedEnough(FALSE) => sResult = Some(PiecesFirst(sIn, sDelim, sN))
    /\ (ReturnedEnough(FALSE) /\ sIn = InABC /\ sDelim = ",") =>
          /\ sN = 3 => sResult.val = <<<<"a">>, <<"b">>, <<"c">>>>
          /\ sN = 2 => sResult.val = <<<<"a">>, <<"b", ",", "c">>>>

\* "a,b,c" split forward with N = 2: the last piece keeps a delimiter.
C4_Witness ==
    /\ spc = "done" /\ ~sRev
    /\ sIn = InABC /\ sDelim = "," /\ sN = 2
    /\ sResult = Some(<<<<"a">>, <<"b", ",", "c">>>>)

\* C5: rsplitn_exact::<N>, N >= 1, on an input with at least N - 1
\* delimiters returns the N pieces cut at the last N - 1 delimiters in left
\* to right order: slot 0 holds the leftmost piece with everything before
\* those delimiters.
C5_Reverse ==
    /\ ReturnedEnough(TRUE) => sResult = Some(PiecesLast(sIn, sDelim, sN))
    /\ (ReturnedEnough(TRUE) /\ sIn = InABC /\ sDelim = "," /\ sN = 2) =>
          sResult.val = <<<<"a", ",", "b">>, <<"c">>>>

\* "a,b,c" split in reverse with N = 2: slot 0 holds "a,b".
C5_Witness ==
    /\ spc = "done" /\ sRev
    /\ sIn = InABC /\ sDelim = "," /\ sN = 2
    /\ sResult = Some(<<<<"a", ",", "b">>, <<"c">>>>)

\* C6: for N >= 2 the result is None exactly when the input holds fewer
\* than N - 1 delimiters, which is when the iterator ran out before N items
\* were written; the two directions agree on it.
C6_Absence ==
    (spc = "done" /\ sN >= 2) =>
        /\ sResult = None <=> Cardinality(DelimAt(sIn, sDelim)) < sN - 1
        /\ sResult = None <=> \E i \in DOMAIN sSlots : ~sSlots[i].init
        /\ splitn_exact(sIn, sDelim, sN).some
             = rsplitn_exact(sIn, sDelim, sN).some
        /\ sResult = IF sRev THEN rsplitn_exact(sIn, sDelim, sN)
                             ELSE splitn_exact(sIn, sDelim, sN)

\* "a" split in reverse on ',' with N = 2 returned None.
C6_Witness ==
    /\ spc = "done" /\ sRev
    /\ sIn = <<"a">> /\ sDelim = "," /\ sN = 2
    /\ sResult = None

\* C7: with N = 0 the result is Some of the empty array, no item was asked
\* of the iterator and no slot was written.
C7_ZeroArity ==
    (spc = "done" /\ sN = 0) =>
        /\ sResult = Some(<<>>)
        /\ sResult # None
        /\ sNext = 0
        /\ sIter = SplitIter(sIn, 0)
        /\ DOMAIN sWritten = {}

\* "a,b,c" split in reverse with N = 0 returned the empty array.
C7_Witness ==
    /\ spc = "done" /\ sRev
    /\ sIn = InABC /\ sDelim = "," /\ sN = 0
    /\ sResult.some /\ sResult.val = <<>>

\* Slots written so far.
WrittenSlots == {i \in DOMAIN sWritten : sWritten[i] > 0}

\* C13: in both directions every slot is written at most once, the array is
\* read only with all N slots written, and when the iterator is exhausted
\* after k < N items the function returns None at that call of next, with
\* indices still to visit and without reading the array.
C13_SlotDiscipline ==
    /\ DOMAIN sSlots = 0..(sN - 1) /\ DOMAIN sWritten = 0..(sN - 1)
    /\ \A i \in DOMAIN sWritten :
          sWritten[i] <= 1 /\ (sSlots[i].init <=> sWritten[i] = 1)
    /\ WrittenSlots = IF sRev
                        THEN (sN - Cardinality(WrittenSlots))..(sN - 1)
                        ELSE 0..(Cardinality(WrittenSlots) - 1)
    /\ sRead => (spc = "done" /\ \A i \in 0..(sN - 1) : sSlots[i].init)
    /\ spc = "done" => (sResult.some <=> sRead)
    /\ (spc = "done" /\ ~sResult.some) =>
          /\ ~sRead
          /\ sResult = None
          /\ Cardinality(WrittenSlots) < sN
          /\ sNext = Cardinality(WrittenSlots) + 1
          /\ Len(sIdx) = sN - Cardinality(WrittenSlots)

\* "a,b" split in reverse with N = 3: slots 2 and 1 were written, the third
\* call of next found the iterator exhausted, and None was returned with
\* the array unread.
C13_Witness ==
    /\ spc = "done" /\ sRev
    /\ sIn = <<"a", ",", "b">> /\ sDelim = "," /\ sN = 3
    /\ WrittenSlots = {1, 2}
    /\ sNext = 3
    /\ ~sRead /\ sResult = None

RECURSIVE Join(_, _)
\* The pieces joined with the delimiter d between them.
Join(ps, d) ==
    IF Len(ps) = 0 THEN <<>>
    ELSE IF Len(ps) = 1 THEN ps[1]
    ELSE ps[1] \o <<d>> \o Join(Tail(ps), d)

\* C17: for N >= 1 and a single-element delimiter, a present result joined
\* with the delimiter is the input; on an input with exactly N - 1
\* delimiters splitn_exact and rsplitn_exact return the same array.
C17_RoundTrip ==
    (spc = "done" /\ sN >= 1) =>
        /\ sResult.some => Join(sResult.val, sDelim) = sIn
        /\ splitn_exact(sIn, sDelim, sN).some =>
              Join(splitn_exact(sIn, sDelim, sN).val, sDelim) = sIn
        /\ rsplitn_exact(sIn, sDelim, sN).some =>
              Join(rsplitn_exact(sIn, sDelim, sN).val, sDelim) = sIn
        /\ Cardinality(DelimAt(sIn, sDelim)) = sN - 1 =>
              /\ splitn_exact(sIn, sDelim, sN).some
              /\ splitn_exact(sIn, sDelim, sN) = rsplitn_exact(sIn, sDelim, sN)
              /\ sResult = splitn_exact(sIn, sDelim, sN)

\* ",a," split forward with N = 3: three pieces, two of them empty, that
\* join back to the input and equal the reverse split.
C17_Witness ==
    /\ spc = "done" /\ ~sRev
    /\ sIn = <<",", "a", ",">> /\ sDelim = "," /\ sN = 3
    /\ sResult = Some(<<<<>>, <<"a">>, <<>>>>)
    /\ Join(sResult.val, sDelim) = sIn
    /\ rsplitn_exact(sIn, sDelim, sN) = sResult

\* The input b"a::b::c".
InBytes == <<"a", ":", ":", "b", ":", ":", "c">>

\* b occurs in s at position i (1-based).
OccursAt(s, b, i) ==
    /\ i >= 1 /\ i + Len(b) - 1 <= Len(s)
    /\ \A j \in 1..Len(b) : s[i + j - 1] = b[j]

RECURSIVE OccFrom(_, _, _)
\* Start positions of the non-overlapping occurrences of b in s found
\* scanning left to right from position from.
OccFrom(s, b, from) ==
    IF \E i \in from..Len(s) : OccursAt(s, b, i)
      THEN LET i == CHOOSE i \in from..Len(s) :
                      /\ OccursAt(s, b, i)
                      /\ \A j \in from..(i - 1) : ~OccursAt(s, b, j)
           IN  <<i>> \o OccFrom(s, b, i + Len(b))
      ELSE <<>>

\* The n pieces of s between its first n - 1 occurrences of b.
PiecesBetween(s, b, n) ==
    LET occ == OccFrom(s, b, 1) IN
    [k \in 1..n |->
       SubSeq(s, IF k = 1 THEN 1 ELSE occ[k - 1] + Len(b),
              IF k = n THEN Len(s) ELSE occ[k] - 1)]

\* C12: splitn_exact::<N> on a byte sequence with a multi-byte delimiter,
\* when the input holds at least N - 1 non-overlapping occurrences of it,
\* returns the N pieces between the first N - 1 of them, the delimiter
\* bytes removed and the last piece holding the remainder.
C12_ByteDelimiter ==
    /\ (spc = "done" /\ sN >= 1 /\ Len(OccFrom(sIn, sDelim, 1)) >= sN - 1) =>
          /\ sResult = Some(PiecesBetween(sIn, sDelim, sN))
          /\ sResult = splitn_exact_bytes(sIn, sDelim, sN)
    /\ (spc = "done" /\ sN = 3 /\ sIn = InBytes /\ sDelim = <<":", ":">>) =>
          sResult = Some(<<<<"a">>, <<"b">>, <<"c">>>>)

\* b"a::b::c" split on b"::" with N = 3 returned [b"a", b"b", b"c"].
C12_Witness ==
    /\ spc = "done" /\ ~sRev
    /\ sIn = InBytes /\ sDelim = <<":", ":">> /\ sN = 3
    /\ sResult = Some(<<<<"a">>, <<"b">>, <<"c">>>>)

====
